---- MODULE Spec2Model ----
(***************************************************************************)
(* Model of kernel/gui/generate_toolbar_icons.py: the module-level import  *)
(* of PIL with its install fallback, the eight render_* routines, the      *)
(* pixel packing and array emission of image_to_c_array, and main, which   *)
(* renders the icon list, assembles the header and prints it.              *)
(*                                                                         *)
(* PIL itself is not part of the repository.  What a draw call inks is an  *)
(* input of the model: a draw call writes its fill colour to the pixels of *)
(* the canvas that lie in the call's bounding box and in an ink set drawn  *)
(* from the subsets of the canvas; a box whose corners are inverted either *)
(* raises ValueError (newer Pillow) or draws nothing (older Pillow).       *)
(***************************************************************************)
EXTENDS Integers, Sequences, FiniteSets, TLC

VARIABLES
    pc,             \* position of the run in the script
    pilPresent,     \* environment: "from PIL import Image" would succeed
    pilStrict,      \* environment: this Pillow raises on inverted boxes
    pilInk,         \* environment: the pixels this Pillow's rasteriser inks
    ICON_SIZE,      \* module constant of line 17
    catalog,        \* the (name, render routine) pairs of main's icon list
    presentAtStart, \* pilPresent when the run began
    installCalls,   \* os.system("pip3 install pillow") calls of this run
    mainCalls,      \* calls of main() of this run
    size,           \* main's local
    icons,          \* main's local: the rendered (name, image) pairs
    img,            \* the image a render routine is drawing on
    inked,          \* the pixels of img the draw calls have inked so far
    prim,           \* next draw call of the running render routine, 0 if none
    i,              \* index of the icon the emission loop is at
    output,         \* main's local: list of strings, each a list of lines
    stdout,         \* the lines written to standard output by this run
    exitStatus,     \* -1 while running, then the process's exit status
    run,            \* number of the run
    prevStdout,     \* stdout of the previous run
    prevExit        \* exit status of the previous run, -1 if none

vars == <<pc, pilPresent, pilStrict, pilInk, ICON_SIZE, catalog, presentAtStart,
          installCalls, mainCalls, size, icons, img, inked, prim, i, output,
          stdout, exitStatus, run, prevStdout, prevExit>>

----------------------------------------------------------------------------
(* Bounds of the model. *)

\* ICON_SIZE values the whole program is run with (the source sets 24).
MaxIconSize == 2
\* Sizes the render routines are run with on their own.
MaxSize == 2
\* Width and height of the surfaces image_to_c_array is run with on its own.
MaxDim == 2
\* Length of the icon lists other than main's own.
MaxIcons == 2
\* Runs of the script in a row.
MaxRuns == 2

----------------------------------------------------------------------------
(* Python's integers are unbounded; the packed values pass 2^31, so an      *)
(* integer is kept as its bits, least significant first, without leading   *)
(* zeros (0 is the empty sequence).                                        *)

RECURSIVE ToBits(_)
ToBits(n) == IF n = 0 THEN <<>> ELSE <<n % 2>> \o ToBits(n \div 2)

\* v << n
Shl(v, n) == IF v = <<>> THEN <<>> ELSE [k \in 1..n |-> 0] \o v

\* a | b
BitOr(a, b) ==
    [k \in 1..(IF Len(a) >= Len(b) THEN Len(a) ELSE Len(b)) |->
        IF (k <= Len(a) /\ a[k] = 1) \/ (k <= Len(b) /\ b[k] = 1) THEN 1 ELSE 0]

Min(S) == CHOOSE m \in S : \A n \in S : m <= n
Max(S) == CHOOSE m \in S : \A n \in S : m >= n

----------------------------------------------------------------------------
(* Images.  An image is its mode, width and height and its pixels in the   *)
(* order of getdata(): row 0 left to right, then row 1, ...                *)

Transparent == <<0, 0, 0, 0>>
White == <<255, 255, 255, 255>>

\* Image.new(mode, (width, height), color)
NewImage(mode, width, height, color) ==
    [mode |-> mode, width |-> width, height |-> height,
     pixels |-> [k \in 1..(width * height) |-> color]]

\* The draw calls of each render routine, in order, with the arguments the
\* routine computes from size.  A box is <<x0, y0, x1, y1>>.
Line(points, fill, width) ==
    [op |-> "line", pts |-> points, fill |-> fill, width |-> width]
Arc(box, start, end, fill, width) ==
    [op |-> "arc", box |-> box, start |-> start, end |-> end,
     fill |-> fill, width |-> width]
Polygon(points, fill) ==
    [op |-> "polygon", pts |-> points, fill |-> fill, width |-> 0]
Rectangle(box, outline, width) ==
    [op |-> "rectangle", box |-> box, fill |-> outline, width |-> width]

render_chevron_left(sz) ==
    LET cx == sz \div 2
        cy == sz \div 2
    IN  << Line(<< <<cx + 4, cy - 7>>, <<cx - 4, cy>>, <<cx + 4, cy + 7>> >>,
                White, 3) >>

render_chevron_right(sz) ==
    LET cx == sz \div 2
        cy == sz \div 2
    IN  << Line(<< <<cx - 4, cy - 7>>, <<cx + 4, cy>>, <<cx - 4, cy + 7>> >>,
                White, 3) >>

render_rotate_cw(sz) ==
    << Arc(<<4, 4, sz - 4, sz - 4>>, 45, 315, White, 2),
       Polygon(<< <<sz - 6, 6>>, <<sz - 3, 10>>, <<sz - 10, 8>> >>, White) >>

render_rotate_ccw(sz) ==
    << Arc(<<4, 4, sz - 4, sz - 4>>, 225, 495, White, 2),
       Polygon(<< <<6, 6>>, <<10, 3>>, <<8, 10>> >>, White) >>

render_zoom_in(sz) ==
    LET cx == sz \div 2
        cy == sz \div 2
    IN  << Line(<< <<cx - 6, cy>>, <<cx + 6, cy>> >>, White, 3),
           Line(<< <<cx, cy - 6>>, <<cx, cy + 6>> >>, White, 3) >>

\* render_zoom_out stroking with a half-transparent white.
render_zoom_out_translucent(sz) ==
    LET cx == sz \div 2
        cy == sz \div 2
    IN  << Line(<< <<cx - 6, cy>>, <<cx + 6, cy>> >>, <<255, 255, 255, 128>>, 3) >>

render_zoom_out(sz) ==
    LET cx == sz \div 2
        cy == sz \div 2
    IN  << Line(<< <<cx - 6, cy>>, <<cx + 6, cy>> >>, White, 3) >>

render_fit(sz) ==
    << Rectangle(<<4, 4, sz - 5, sz - 5>>, White, 2),
       Line(<< <<4, 4>>, <<10, 10>> >>, White, 2),
       Line(<< <<sz - 5, sz - 5>>, <<sz - 11, sz - 11>> >>, White, 2) >>

render_fullscreen(sz) ==
    << Line(<< <<2, 8>>, <<2, 2>>, <<8, 2>> >>, White, 2),
       Line(<< <<sz - 9, 2>>, <<sz - 3, 2>>, <<sz - 3, 8>> >>, White, 2),
       Line(<< <<2, sz - 9>>, <<2, sz - 3>>, <<8, sz - 3>> >>, White, 2),
       Line(<< <<sz - 9, sz - 3>>, <<sz - 3, sz - 3>>, <<sz - 3, sz - 9>> >>,
            White, 2) >>

Renderers == {"render_chevron_left", "render_chevron_right", "render_rotate_cw",
              "render_rotate_ccw", "render_zoom_in", "render_zoom_out",
              "render_fit", "render_fullscreen"}

DrawCalls(renderer, sz) ==
    CASE renderer = "render_chevron_left"  -> render_chevron_left(sz)
      [] renderer = "render_chevron_right" -> render_chevron_right(sz)
      [] renderer = "render_rotate_cw"     -> render_rotate_cw(sz)
      [] renderer = "render_rotate_ccw"    -> render_rotate_ccw(sz)
      [] renderer = "render_zoom_in"       -> render_zoom_in(sz)
      [] renderer = "render_zoom_out"      -> render_zoom_out(sz)
      [] renderer = "render_fit"           -> render_fit(sz)
      [] renderer = "render_fullscreen"    -> render_fullscreen(sz)

\* The corner points of a draw call and the box around what it can ink: a
\* stroked line stays within its width of its points, a polygon within its
\* vertices, an arc or a rectangle outline within its box.
Corners(p) ==
    IF p.op \in {"arc", "rectangle"}
    THEN << <<p.box[1], p.box[2]>>, <<p.box[3], p.box[4]>> >>
    ELSE p.pts

Reach(p) == IF p.op = "line" THEN p.width ELSE 0

BoundingBox(p) ==
    LET xs == {Corners(p)[n][1] : n \in 1..Len(Corners(p))}
        ys == {Corners(p)[n][2] : n \in 1..Len(Corners(p))}
    IN  <<Min(xs) - Reach(p), Min(ys) - Reach(p),
          Max(xs) + Reach(p), Max(ys) + Reach(p)>>

\* Pillow's check of a box given as [x0, y0, x1, y1].
Inverted(p) ==
    /\ p.op \in {"arc", "rectangle"}
    /\ (p.box[3] < p.box[1] \/ p.box[4] < p.box[2])

\* The pixels (indices into getdata()) of image im inside a box.
InBox(im, bb) ==
    {k \in 1..(im.width * im.height) :
        /\ bb[1] <= (k - 1) % im.width
        /\ (k - 1) % im.width <= bb[3]
        /\ bb[2] <= (k - 1) \div im.width
        /\ (k - 1) \div im.width <= bb[4]}

\* The pixels a draw call inks on image im.
Footprint(im, p, ink) ==
    IF Inverted(p) THEN {} ELSE ink \cap InBox(im, BoundingBox(p))

\* draw.line / draw.arc / draw.polygon / draw.rectangle on an RGBA image:
\* the inked pixels take the fill colour as it is, the others are kept.
Draw(im, p, ink) ==
    LET inkedNow == Footprint(im, p, ink)
    IN  [im EXCEPT !.pixels =
            [k \in 1..(im.width * im.height) |->
                IF k \in inkedNow THEN p.fill ELSE im.pixels[k]]]

----------------------------------------------------------------------------
(* image_to_c_array *)

\* img.convert('RGBA'): an RGBA image is copied as it is.
ConvertRGBA(im) == [im EXCEPT !.mode = "RGBA"]

\* Pack with red and blue exchanged (0xAABBGGRR).
PackBlueFirst(px) ==
    BitOr(BitOr(BitOr(Shl(ToBits(px[4]), 24), Shl(ToBits(px[3]), 16)),
                Shl(ToBits(px[2]), 8)),
          ToBits(px[1]))

\* (a << 24) | (r << 16) | (g << 8) | b of a pixel <<r, g, b, a>>
Pack(px) ==
    BitOr(BitOr(BitOr(Shl(ToBits(px[4]), 24), Shl(ToBits(px[1]), 16)),
                Shl(ToBits(px[2]), 8)),
          ToBits(px[3]))

HexChars == <<"0", "1", "2", "3", "4", "5", "6", "7",
              "8", "9", "A", "B", "C", "D", "E", "F">>

\* The hexadecimal digit of v at place j (place 0 is the lowest).
HexDigit(v, j) ==
    LET bit(k) == IF k <= Len(v) THEN v[k] ELSE 0
    IN  bit(4 * j + 1) + 2 * bit(4 * j + 2) + 4 * bit(4 * j + 3) + 8 * bit(4 * j + 4)

\* format(v, "X"): the upper-case hexadecimal digits of v, highest first
ToHex(v) ==
    IF v = <<>> THEN <<"0">>
    ELSE LET n == (Len(v) + 3) \div 4
         IN  [d \in 1..n |-> HexChars[HexDigit(v, n - d) + 1]]

RECURSIVE ZeroPad(_, _)
ZeroPad(s, w) == IF Len(s) >= w THEN s ELSE ZeroPad(<<"0">> \o s, w)

\* f"0x{pixel:08X}", as the sequence of its characters
Format08X(pixel) == <<"0", "x">> \o ZeroPad(ToHex(pixel), 8)

\* The lines of the text the code builds.  A line without interpolation is
\* Text(s); a line of an f-string keeps the interpolated values as fields.
Text(s) == [kind |-> "text", text |-> s]
\* f"/* {name} - {img.width}x{img.height} RGBA icon */"
ArrayComment(name, width, height) ==
    [kind |-> "array_comment", name |-> name, width |-> width, height |-> height]
\* f"static const uint32_t {name}[{img.width * img.height}] = {{"
ArrayOpen(name, count) ==
    [kind |-> "array_open", name |-> name, count |-> count]
\* "    " + ", ".join(row) + ","
Row(row) == [kind |-> "row", values |-> row]

\* image_to_c_array reading the pixels column by column.
image_to_c_array_by_column(image, name) ==
    LET im == ConvertRGBA(image)
        pixels == im.pixels
        row(y) == [x \in 1..im.width |->
                     Format08X(Pack(pixels[(x - 1) * im.height + (y - 1) + 1]))]
    IN  <<ArrayComment(name, im.width, im.height),
          ArrayOpen(name, im.width * im.height)>>
        \o [y \in 1..im.height |-> Row(row(y))]
        \o <<Text("};")>>

\* The lines of the string image_to_c_array returns.
image_to_c_array(image, name) ==
    LET im == ConvertRGBA(image)
        pixels == im.pixels
        row(y) == [x \in 1..im.width |->
                     Format08X(Pack(pixels[(y - 1) * im.width + (x - 1) + 1]))]
    IN  <<ArrayComment(name, im.width, im.height),
          ArrayOpen(name, im.width * im.height)>>
        \o [y \in 1..im.height |-> Row(row(y))]
        \o <<Text("};")>>

----------------------------------------------------------------------------
(* main's text *)

\* The icon list of main: each name with the routine that renders it.
MainIcons ==
    << <<"toolbar_icon_prev", "render_chevron_left">>,
       <<"toolbar_icon_next", "render_chevron_right">>,
       <<"toolbar_icon_rotate_cw", "render_rotate_cw">>,
       <<"toolbar_icon_rotate_ccw", "render_rotate_ccw">>,
       <<"toolbar_icon_zoom_in", "render_zoom_in">>,
       <<"toolbar_icon_zoom_out", "render_zoom_out">>,
       <<"toolbar_icon_fit", "render_fit">>,
       <<"toolbar_icon_fullscreen", "render_fullscreen">> >>

\* "#define NAME value"
Define(name, value) == [kind |-> "define", name |-> name, value |-> value]
\* f"    {name},"
TableEntry(name) == [kind |-> "table_entry", name |-> name]

\* output.append(s) for a one-line string s
AppendLine(out, line) == Append(out, <<line>>)

\* The header with the include placed before the guard.
HeaderLinesIncludeFirst(sz) ==
    << <<Text("/*")>>,
       <<Text(" * Toolbar Icons for vib-OS Image Viewer")>>,
       <<Text(" * Auto-generated 24x24 RGBA icons")>>,
       <<Text(" */")>>,
       <<Text("")>>,
       <<Text("#include \"types.h\"")>>,
       <<Text("")>>,
       <<Text("#ifndef TOOLBAR_ICONS_H")>>,
       <<Text("#define TOOLBAR_ICONS_H")>>,
       <<Text("")>>,
       <<Define("TOOLBAR_ICON_SIZE", sz)>>,
       <<Text("")>> >>

\* The strings main appends before the arrays.
HeaderLines(sz) ==
    << <<Text("/*")>>,
       <<Text(" * Toolbar Icons for vib-OS Image Viewer")>>,
       <<Text(" * Auto-generated 24x24 RGBA icons")>>,
       <<Text(" */")>>,
       <<Text("")>>,
       <<Text("#ifndef TOOLBAR_ICONS_H")>>,
       <<Text("#define TOOLBAR_ICONS_H")>>,
       <<Text("")>>,
       <<Text("#include \"types.h\"")>>,
       <<Text("")>>,
       <<Define("TOOLBAR_ICON_SIZE", sz)>>,
       <<Text("")>> >>

\* The lookup table without the entry of the last icon.
TableLinesShort(iconList) ==
    << <<Text("/* Icon array for toolbar */")>>,
       <<Text("static const uint32_t* toolbar_icons[] = {")>> >>
    \o [k \in 1..(Len(iconList) - 1) |-> <<TableEntry(iconList[k][1])>>]
    \o << <<Text("};")>>, <<Text("")>> >>

\* The strings of the lookup table, one entry per icon of the list.
TableLines(iconList) ==
    << <<Text("/* Icon array for toolbar */")>>,
       <<Text("static const uint32_t* toolbar_icons[] = {")>> >>
    \o [k \in 1..Len(iconList) |-> <<TableEntry(iconList[k][1])>>]
    \o << <<Text("};")>>, <<Text("")>> >>

\* The index constants numbered from 1.
IndexLinesFromOne ==
    << <<Define("TOOLBAR_ICON_PREV", 1)>>,
       <<Define("TOOLBAR_ICON_NEXT", 2)>>,
       <<Define("TOOLBAR_ICON_ROTATE_CW", 3)>>,
       <<Define("TOOLBAR_ICON_ROTATE_CCW", 4)>>,
       <<Define("TOOLBAR_ICON_ZOOM_IN", 5)>>,
       <<Define("TOOLBAR_ICON_ZOOM_OUT", 6)>>,
       <<Define("TOOLBAR_ICON_FIT", 7)>>,
       <<Define("TOOLBAR_ICON_FULLSCREEN", 8)>>,
       <<Text("")>>,
       <<Text("#endif /* TOOLBAR_ICONS_H */")>> >>

\* The index constants and the closing of the guard.
IndexLines ==
    << <<Define("TOOLBAR_ICON_PREV", 0)>>,
       <<Define("TOOLBAR_ICON_NEXT", 1)>>,
       <<Define("TOOLBAR_ICON_ROTATE_CW", 2)>>,
       <<Define("TOOLBAR_ICON_ROTATE_CCW", 3)>>,
       <<Define("TOOLBAR_ICON_ZOOM_IN", 4)>>,
       <<Define("TOOLBAR_ICON_ZOOM_OUT", 5)>>,
       <<Define("TOOLBAR_ICON_FIT", 6)>>,
       <<Define("TOOLBAR_ICON_FULLSCREEN", 7)>>,
       <<Text("")>>,
       <<Text("#endif /* TOOLBAR_ICONS_H */")>> >>

\* "\n".join(output), as the lines of the joined text
RECURSIVE JoinLines(_)
JoinLines(out) ==
    IF out = <<>> THEN <<>> ELSE Head(out) \o JoinLines(Tail(out))

\* What the child process of os.system writes to the inherited stdout.
ChildOutput(command) == [kind |-> "child_output", command |-> command]

NoImage == NewImage("RGBA", 0, 0, Transparent)

----------------------------------------------------------------------------
(* The run of the script *)

env == <<pilStrict, pilInk, ICON_SIZE, catalog>>
past == <<run, prevStdout, prevExit, presentAtStart>>
locals == <<size, icons, img, inked, prim, i, output>>

\* Lines 10-12: from PIL import Image, and the except clause entered or not.
ImportPIL ==
    /\ pc = "import"
    /\ pc' = IF pilPresent THEN "main" ELSE "install"
    /\ UNCHANGED <<pilPresent, env, past, locals, installCalls, mainCalls,
                   stdout, exitStatus>>

\* Lines 13-14: the notice is printed and pip3 is run once; pip3 may or may
\* not make PIL importable, and may or may not write to the inherited stdout.
InstallPIL ==
    /\ pc = "install"
    /\ \E installed \in BOOLEAN, chatty \in BOOLEAN :
         /\ pilPresent' = installed
         /\ stdout' = Append(stdout, Text("PIL not found. Installing..."))
                      \o (IF chatty THEN <<ChildOutput("pip3 install pillow")>>
                                    ELSE <<>>)
    /\ installCalls' = installCalls + 1
    /\ pc' = "reimport"
    /\ UNCHANGED <<env, past, locals, mainCalls, exitStatus>>

\* The second import retrying the install when it fails.
ReimportPILRetry ==
    /\ pc = "reimport"
    /\ pc' = IF pilPresent THEN "main" ELSE "install"
    /\ UNCHANGED <<pilPresent, env, past, locals, installCalls, mainCalls,
                   stdout, exitStatus>>

\* Line 15: the second import; its ImportError is not caught.
ReimportPIL ==
    /\ pc = "reimport"
    /\ \/ /\ pilPresent
          /\ pc' = "main"
          /\ UNCHANGED exitStatus
       \/ /\ ~pilPresent
          /\ pc' = "failed"
          /\ exitStatus' = 1
    /\ UNCHANGED <<pilPresent, env, past, locals, installCalls, mainCalls, stdout>>

\* Lines 196-197 and 143: main() is called and binds size.
MainStart ==
    /\ pc = "main"
    /\ mainCalls' = mainCalls + 1
    /\ size' = ICON_SIZE
    /\ icons' = <<>>
    /\ pc' = "render"
    /\ UNCHANGED <<pilPresent, env, past, img, inked, prim, i, output, installCalls,
                   stdout, exitStatus>>

\* Lines 146-155, one element at a time: the routine of the next icon is
\* called and creates its transparent canvas.
RenderCall ==
    /\ pc = "render"
    /\ prim = 0
    /\ Len(icons) < Len(catalog)
    /\ img' = NewImage("RGBA", size, size, Transparent)
    /\ inked' = {}
    /\ prim' = 1
    /\ UNCHANGED <<pc, pilPresent, env, past, size, icons, i, output,
                   installCalls, mainCalls, stdout, exitStatus>>

\* The next draw call of the running routine, inking within ink.
DrawStep(ink) ==
    /\ pc = "render"
    /\ Len(icons) < Len(catalog)
    /\ LET calls == DrawCalls(catalog[Len(icons) + 1][2], size)
       IN  /\ prim \in 1..Len(calls)
           /\ \/ /\ ~(Inverted(calls[prim]) /\ pilStrict)
                 /\ img' = Draw(img, calls[prim], ink)
                 /\ inked' = inked \cup Footprint(img, calls[prim], ink)
                 /\ prim' = prim + 1
                 /\ UNCHANGED <<pc, exitStatus>>
              \/ /\ Inverted(calls[prim]) /\ pilStrict
                 /\ pc' = "failed"
                 /\ exitStatus' = 1
                 /\ UNCHANGED <<img, inked, prim>>
    /\ UNCHANGED <<pilPresent, env, past, size, icons, i, output,
                   installCalls, mainCalls, stdout>>

Drawing == DrawStep(pilInk)

\* The routine returns img and the pair joins the list.
RenderReturn ==
    /\ pc = "render"
    /\ Len(icons) < Len(catalog)
    /\ prim = Len(DrawCalls(catalog[Len(icons) + 1][2], size)) + 1
    /\ icons' = Append(icons, <<catalog[Len(icons) + 1][1], img>>)
    /\ prim' = 0
    /\ UNCHANGED <<pc, pilPresent, env, past, size, img, inked, i, output,
                   installCalls, mainCalls, stdout, exitStatus>>

\* Lines 158-170.
EmitHeader ==
    /\ pc = "render"
    /\ prim = 0
    /\ Len(icons) = Len(catalog)
    /\ output' = HeaderLines(size)
    /\ i' = 1
    /\ pc' = "arrays"
    /\ UNCHANGED <<pilPresent, env, past, size, icons, img, inked, prim,
                   installCalls, mainCalls, stdout, exitStatus>>

\* Lines 172-174, one iteration.
EmitArray ==
    /\ pc = "arrays"
    /\ i <= Len(icons)
    /\ output' = AppendLine(Append(output,
                               image_to_c_array(icons[i][2], icons[i][1])),
                            Text(""))
    /\ i' = i + 1
    /\ UNCHANGED <<pc, pilPresent, env, past, size, icons, img, inked, prim,
                   installCalls, mainCalls, stdout, exitStatus>>

\* Lines 177-182.
EmitTable ==
    /\ pc = "arrays"
    /\ i > Len(icons)
    /\ output' = output \o TableLines(icons)
    /\ pc' = "defines"
    /\ UNCHANGED <<pilPresent, env, past, size, icons, img, inked, prim, i,
                   installCalls, mainCalls, stdout, exitStatus>>

\* Lines 183-192.
EmitDefines ==
    /\ pc = "defines"
    /\ output' = output \o IndexLines
    /\ pc' = "print"
    /\ UNCHANGED <<pilPresent, env, past, size, icons, img, inked, prim, i,
                   installCalls, mainCalls, stdout, exitStatus>>

\* Line 194, and the script ends with status 0.
PrintDocument ==
    /\ pc = "print"
    /\ stdout' = stdout \o JoinLines(output)
    /\ pc' = "done"
    /\ exitStatus' = 0
    /\ UNCHANGED <<pilPresent, env, past, locals, installCalls, mainCalls>>

\* The build runs the script again, in the environment the last run left.
Rerun ==
    /\ pc \in {"done", "failed"}
    /\ run < MaxRuns
    /\ run' = run + 1
    /\ prevStdout' = stdout
    /\ prevExit' = exitStatus
    /\ presentAtStart' = pilPresent
    /\ pc' = "import"
    /\ installCalls' = 0
    /\ mainCalls' = 0
    /\ size' = 0
    /\ icons' = <<>>
    /\ img' = NoImage
    /\ inked' = {}
    /\ prim' = 0
    /\ i' = 0
    /\ output' = <<>>
    /\ stdout' = <<>>
    /\ exitStatus' = -1
    /\ UNCHANGED <<pilPresent, env>>

Fresh ==
    /\ pc = "import"
    /\ presentAtStart = pilPresent
    /\ installCalls = 0
    /\ mainCalls = 0
    /\ size = 0
    /\ icons = <<>>
    /\ img = NoImage
    /\ inked = {}
    /\ prim = 0
    /\ i = 0
    /\ output = <<>>
    /\ stdout = <<>>
    /\ exitStatus = -1
    /\ run = 1
    /\ prevStdout = <<>>
    /\ prevExit = -1

\* The script as it stands, in any environment.
Init ==
    /\ pilPresent \in BOOLEAN
    /\ pilStrict \in BOOLEAN
    /\ ICON_SIZE \in 1..MaxIconSize
    /\ pilInk \in SUBSET (1..(ICON_SIZE * ICON_SIZE))
    /\ catalog = MainIcons
    /\ Fresh

Next ==
    \/ ImportPIL
    \/ InstallPIL
    \/ ReimportPIL
    \/ MainStart
    \/ RenderCall
    \/ Drawing
    \/ RenderReturn
    \/ EmitHeader
    \/ EmitArray
    \/ EmitTable
    \/ EmitDefines
    \/ PrintDocument

\* One run of the script.
Spec == Init /\ [][Next]_vars

\* Up to MaxRuns runs in a row.
NextRuns ==
    \/ Next
    \/ Rerun

SpecRuns == Init /\ [][NextRuns]_vars

----------------------------------------------------------------------------
(* The emission code of main run on icon lists other than its own: the     *)
(* lists of up to MaxIcons entries drawn from the first PoolSize entries   *)
(* of main's list, with a rasteriser that inks the whole box.              *)

PoolSize == 3

IconLists ==
    UNION {[1..n -> {MainIcons[k] : k \in 1..PoolSize}] : n \in 0..MaxIcons}

InitAnyCatalog ==
    /\ pilPresent \in BOOLEAN
    /\ pilStrict \in BOOLEAN
    /\ ICON_SIZE \in 1..MaxIconSize
    /\ pilInk = 1..(ICON_SIZE * ICON_SIZE)
    /\ catalog \in IconLists \cup {MainIcons}
    /\ Fresh

SpecAnyCatalog == InitAnyCatalog /\ [][Next]_vars

----------------------------------------------------------------------------
(* One render routine on its own, for every size up to MaxSize and every   *)
(* ink set per draw call, followed by the emission of its array.           *)

InitRender ==
    /\ pilPresent = TRUE
    /\ ICON_SIZE \in 1..MaxSize
    /\ pilInk = {}
    /\ \E r \in Renderers : catalog = << <<"icon", r>> >>
    \* Strictness matters only to a routine that passes a box.
    /\ pilStrict \in (IF \E n \in 1..Len(DrawCalls(catalog[1][2], ICON_SIZE)) :
                           DrawCalls(catalog[1][2], ICON_SIZE)[n].op
                               \in {"arc", "rectangle"}
                      THEN BOOLEAN ELSE {FALSE})
    /\ pc = "render"
    /\ presentAtStart = TRUE
    /\ installCalls = 0
    /\ mainCalls = 1
    /\ size = ICON_SIZE
    /\ icons = <<>>
    /\ img = NoImage
    /\ inked = {}
    /\ prim = 0
    /\ i = 0
    /\ output = <<>>
    /\ stdout = <<>>
    /\ exitStatus = -1
    /\ run = 1
    /\ prevStdout = <<>>
    /\ prevExit = -1

DrawingAny == \E ink \in SUBSET (1..(size * size)) : DrawStep(ink)

NextRender ==
    \/ RenderCall
    \/ DrawingAny
    \/ RenderReturn
    \/ EmitHeader
    \/ EmitArray

SpecRender == InitRender /\ [][NextRender]_vars

----------------------------------------------------------------------------
(* image_to_c_array on its own: every RGBA surface of up to MaxDim by      *)
(* MaxDim pixels over a palette, and every one-pixel surface whose         *)
(* channels are drawn from ChannelSample.                                  *)

Palette == {Transparent, White, <<1, 2, 3, 4>>}
ChannelSample == {0, 1, 85, 170, 255}

Surfaces ==
    UNION {[mode : {"RGBA"}, width : {w}, height : {h},
            pixels : [1..(w * h) -> Palette]] : w \in 1..MaxDim, h \in 1..MaxDim}
    \cup [mode : {"RGBA"}, width : {1}, height : {1},
          pixels : [1..1 -> ChannelSample \X ChannelSample
                               \X ChannelSample \X ChannelSample]]

InitArray ==
    /\ pilPresent = TRUE
    /\ pilStrict = FALSE
    /\ ICON_SIZE = 1
    /\ pilInk = {}
    /\ catalog = << <<"icon", "render_zoom_out">> >>
    /\ pc = "arrays"
    /\ presentAtStart = TRUE
    /\ installCalls = 0
    /\ mainCalls = 1
    /\ size = ICON_SIZE
    /\ \E s \in Surfaces : icons = << <<"icon", s>> >>
    /\ img = NoImage
    /\ inked = {}
    /\ prim = 0
    /\ i = 1
    /\ output = <<>>
    /\ stdout = <<>>
    /\ exitStatus = -1
    /\ run = 1
    /\ prevStdout = <<>>
    /\ prevExit = -1

NextArray == EmitArray

SpecArray == InitArray /\ [][NextArray]_vars

----------------------------------------------------------------------------
(* Reading the emitted text *)

\* The strings of out that are array declarations, in order.
ArrayStrings(out) == SelectSeq(out, LAMBDA str : str[1].kind = "array_comment")

\* The values of an array declaration, across its row lines, in order.
RECURSIVE ValuesOf(_)
ValuesOf(lines) ==
    IF lines = <<>> THEN <<>>
    ELSE (IF Head(lines).kind = "row" THEN Head(lines).values ELSE <<>>)
         \o ValuesOf(Tail(lines))

\* The integer (as bits) a "0x..." token denotes.
ParseHex(token) ==
    LET ds == SubSeq(token, 3, Len(token))
        n == Len(ds)
        val(c) == CHOOSE d \in 0..15 : HexChars[d + 1] = c
    IN  [k \in 1..(4 * n) |->
            (val(ds[n - ((k - 1) \div 4)]) \div (2 ^ ((k - 1) % 4))) % 2]

RECURSIVE ToInt(_)
ToInt(v) == IF v = <<>> THEN 0 ELSE Head(v) + 2 * ToInt(Tail(v))

\* v >> n and v & 255
Shr(v, n) == SubSeq(v, n + 1, Len(v))
Low8(v) == SubSeq(v, 1, IF Len(v) < 8 THEN Len(v) ELSE 8)

\* The inverse of the documented layout: <<r, g, b, a>> of a packed value.
Unpack(v) ==
    <<ToInt(Low8(Shr(v, 16))), ToInt(Low8(Shr(v, 8))), ToInt(Low8(v)),
      ToInt(Shr(v, 24))>>

\* The text main has assembled, as lines.
Document == JoinLines(output)

Names(iconList) == [k \in 1..Len(iconList) |-> iconList[k][1]]

PositionsOf(doc, line) == {k \in 1..Len(doc) : doc[k] = line}
PositionsOfKind(doc, kind) == {k \in 1..Len(doc) : doc[k].kind = kind}

\* The names of the lines of a kind, in document order.
NamesOfKind(doc, kind) ==
    LET sel == SelectSeq(doc, LAMBDA l : l.kind = kind)
    IN  [k \in 1..Len(sel) |-> sel[k].name]

----------------------------------------------------------------------------
(* C1: every value image_to_c_array emits unpacks, through the inverse of  *)
(* the layout (a = v>>24, r = (v>>16)&255, g = (v>>8)&255, b = v&255), to  *)
(* exactly the pixel it was packed from.                                   *)
C1_PackRoundTrip ==
    \A j \in 1..Len(ArrayStrings(output)) :
        LET vals == ValuesOf(ArrayStrings(output)[j])
        IN  \A k \in 1..Len(vals) :
                Unpack(ParseHex(vals[k])) = icons[j][2].pixels[k]

C1_Witness ==
    /\ Len(ArrayStrings(output)) = 1
    /\ icons[1][2].pixels[1] = <<85, 170, 1, 255>>

(* C6: image_to_c_array emits width*height values, declares that count,    *)
(* groups them one row of width values per line, and the k-th value is the *)
(* packing of the stored pixel k (row-major).                              *)
C6_RowMajorValues ==
    \A j \in 1..Len(ArrayStrings(output)) :
        LET str == ArrayStrings(output)[j]
            im == icons[j][2]
            vals == ValuesOf(str)
            rows == SelectSeq(str, LAMBDA l : l.kind = "row")
        IN  /\ Len(vals) = im.width * im.height
            /\ str[2].kind = "array_open"
            /\ str[2].count = im.width * im.height
            /\ Len(rows) = im.height
            /\ \A y \in 1..Len(rows) : Len(rows[y].values) = im.width
            /\ \A k \in 1..Len(vals) : vals[k] = Format08X(Pack(im.pixels[k]))

C6_Witness ==
    /\ Len(ArrayStrings(output)) = 1
    /\ icons[1][2].width = 2
    /\ icons[1][2].height = 1
    /\ icons[1][2].pixels = <<White, <<1, 2, 3, 4>> >>

(* C7: in every surface a render routine draws and returns, a pixel no     *)
(* draw call inked is (0,0,0,0) and is emitted as 0x00000000, a pixel a    *)
(* draw call inked is (255,255,255,255) and is emitted as 0xFFFFFFFF; no   *)
(* other value is emitted.                                                 *)
Hex00000000 == <<"0", "x", "0", "0", "0", "0", "0", "0", "0", "0">>
HexFFFFFFFF == <<"0", "x", "F", "F", "F", "F", "F", "F", "F", "F">>

IsIndexDefine(l) == l.kind = "define" /\ l.name # "TOOLBAR_ICON_SIZE"

C5_DocumentOrder ==
    pc \in {"print", "done"} =>
        LET d == Document
            once(line) == Cardinality(PositionsOf(d, line)) = 1
            at(line) == CHOOSE k \in PositionsOf(d, line) : TRUE
            ifndef == Text("#ifndef TOOLBAR_ICONS_H")
            guard == Text("#define TOOLBAR_ICONS_H")
            include == Text("#include \"types.h\"")
            sizeDef == Define("TOOLBAR_ICON_SIZE", size)
            table == Text("static const uint32_t* toolbar_icons[] = {")
            endif == Text("#endif /* TOOLBAR_ICONS_H */")
            arrays == PositionsOfKind(d, "array_comment")
                      \cup PositionsOfKind(d, "array_open")
                      \cup PositionsOfKind(d, "row")
            entries == PositionsOfKind(d, "table_entry")
            indexes == {k \in 1..Len(d) : IsIndexDefine(d[k])}
        IN  /\ SubSeq(d, 1, 4) = <<Text("/*"),
                                   Text(" * Toolbar Icons for vib-OS Image Viewer"),
                                   Text(" * Auto-generated 24x24 RGBA icons"),
                                   Text(" */")>>
            /\ once(Text("/*")) /\ once(Text(" */"))
            /\ once(ifndef) /\ once(guard) /\ once(include) /\ once(table)
            /\ once(endif)
            /\ Cardinality(PositionsOfKind(d, "define") \ indexes) = 1
            /\ once(sizeDef)
            /\ 4 < at(ifndef) /\ at(guard) = at(ifndef) + 1
            /\ at(guard) < at(include) /\ at(include) < at(sizeDef)
            /\ \A k \in arrays : at(sizeDef) < k /\ k < at(table)
            /\ NamesOfKind(d, "array_open") = Names(icons)
            /\ NamesOfKind(d, "array_comment") = Names(icons)
            /\ \A k \in entries : at(table) < k
            /\ Cardinality(entries) = Len(icons)
            /\ \A k \in indexes : at(table) < k /\ k < at(endif)
                                  /\ \A e \in entries : e < k
            /\ Cardinality(indexes) = Len(icons)
            /\ at(endif) = Len(d)

C5_Witness == pc = "done" /\ exitStatus = 0 /\ Len(icons) = 8

(* C10: every name in the toolbar_icons table is the name of an array      *)
(* declared earlier in the document, and once the table is written every   *)
(* declared array has an entry in it.                                      *)
C10_TableNamesDeclared ==
    LET d == Document
        opens == PositionsOfKind(d, "array_open")
        entries == PositionsOfKind(d, "table_entry")
    IN  /\ \A e \in entries : \E o \in opens : o < e /\ d[o].name = d[e].name
        /\ pc \in {"defines", "print", "done"} =>
              \A o \in opens : \E e \in entries : d[e].name = d[o].name

C10_Witness ==
    /\ pc = "done"
    /\ Len(icons) = 2
    /\ icons[1][1] # icons[2][1]
    /\ Cardinality(PositionsOfKind(Document, "table_entry")) = 2

(* C2, as claimed: for any icon list, the constant emitted for each icon   *)
(* equals the icon's zero-based position in the toolbar_icons table, and   *)
(* the table has one entry per icon in list order.                         *)
\* The index constant that belongs to an array name (its upper-case form
\* without "TOOLBAR_ICON_" repeated).
IndexConstantOf(name) ==
    CASE name = "toolbar_icon_prev"       -> "TOOLBAR_ICON_PREV"
      [] name = "toolbar_icon_next"       -> "TOOLBAR_ICON_NEXT"
      [] name = "toolbar_icon_rotate_cw"  -> "TOOLBAR_ICON_ROTATE_CW"
      [] name = "toolbar_icon_rotate_ccw" -> "TOOLBAR_ICON_ROTATE_CCW"
      [] name = "toolbar_icon_zoom_in"    -> "TOOLBAR_ICON_ZOOM_IN"
      [] name = "toolbar_icon_zoom_out"   -> "TOOLBAR_ICON_ZOOM_OUT"
      [] name = "toolbar_icon_fit"        -> "TOOLBAR_ICON_FIT"
      [] name = "toolbar_icon_fullscreen" -> "TOOLBAR_ICON_FULLSCREEN"

\* Some index constant of the document names the icon at place k with k - 1,
\* and none names it with another value.
IndexMatches(d, k) ==
    /\ \E p \in 1..Len(d) :
          /\ IsIndexDefine(d[p])
          /\ d[p].name = IndexConstantOf(icons[k][1])
          /\ d[p].value = k - 1
    /\ \A p \in 1..Len(d) :
          (IsIndexDefine(d[p]) /\ d[p].name = IndexConstantOf(icons[k][1]))
              => d[p].value = k - 1

HasDuplicate(names) ==
    \E a, b \in 1..Len(names) : a # b /\ names[a] = names[b]

C3_NoOutputOnFailure ==
    /\ pc # "done" => stdout = <<>>
    /\ pc = "done" => stdout = Document

(* C8, as claimed: two successful runs with the same size, icon list and   *)
(* rasteriser write the same text to standard output.                      *)
C8_SameOutputText ==
    (run > 1 /\ pc = "done" /\ prevExit = 0) => stdout = prevStdout

(* C9: the install step runs at most once per run and never when PIL was   *)
(* importable at start-up; when PIL was missing it has run exactly once by *)
(* the time the run ends; if PIL is still missing after it, the run ends   *)
(* with a non-zero status without main being called or an icon rendered.   *)
C9_InstallOnce ==
    /\ installCalls <= 1
    /\ presentAtStart => installCalls = 0
    /\ (~presentAtStart /\ pc \notin {"import", "install"}) => installCalls = 1
    /\ (~pilPresent /\ pc \notin {"import", "install", "reimport"}) =>
          /\ pc = "failed"
          /\ exitStatus # 0 /\ exitStatus # -1
          /\ mainCalls = 0
          /\ icons = <<>>
          /\ img = NoImage
    /\ mainCalls > 0 => pilPresent

C9_Witness ==
    /\ pc = "failed"
    /\ ~presentAtStart
    /\ ~pilPresent
    /\ installCalls = 1
    /\ mainCalls = 0

====
